---- MODULE Spec2Model ----
(***************************************************************************)
(* Depth-frame decoding (NYUImporter.load_depth_data) and the hand cropper *)
(* (HandDetector: __init__, bounds_from_com, crop_img, crop_area_3d).      *)
(*                                                                         *)
(* Arrays are records [ndim, rows, cols, data] with data[y][x] 1-based;    *)
(* Python's 0-based indices are shifted by one where the data is read.     *)
(* Depths are whole millimetres; box sizes in z are even, so that the      *)
(* code's size[2] / 2. is exact in the integers.  Focal lengths are held   *)
(* in hundredths (588.03 is 58803), and the projection is evaluated in     *)
(* IEEE 754 binary64, every operation rounded, as Python floats are.       *)
(***************************************************************************)
EXTENDS Integers, Sequences, FiniteSets, TLC

(* ------------------------------ bounds -------------------------------- *)
MaxH == 2
MaxW == 2
MaxSeed == 5

(* ------------------------- program constants -------------------------- *)
DepthCap == 1500
DepthFloor == 10
HighByteShift == 8
FocalDen == 100

(* ------------------------------ helpers ------------------------------- *)
Min(a, b) == IF a < b THEN a ELSE b
Max(a, b) == IF a > b THEN a ELSE b
Abs(a) == IF a < 0 THEN 0 - a ELSE a

None == <<>>

(* The element of a singleton set: binds a value that is used repeatedly. *)
TheOne(S) == CHOOSE v \in S : TRUE

(* owndata is numpy's flag: FALSE for a view onto another array's buffer.  *)
Array2(h, w, d) ==
    [ndim |-> 2, rows |-> h, cols |-> w, data |-> d, owndata |-> TRUE]
NoArray == Array2(0, 0, <<>>)

Pixels(a) == {<<y, x>> : y \in 1..a.rows, x \in 1..a.cols}
ArrMax(a) == CHOOSE m \in {a.data[p[1]][p[2]] : p \in Pixels(a)} :
                 \A p \in Pixels(a) : a.data[p[1]][p[2]] <= m
ArrMin(a) == CHOOSE m \in {a.data[p[1]][p[2]] : p \in Pixels(a)} :
                 \A p \in Pixels(a) : a.data[p[1]][p[2]] >= m

(* ----------------------- NYUImporter.load_depth_data ------------------ *)
RECURSIVE Pow2(_)
Pow2(n) == IF n = 0 THEN 1 ELSE 2 * Pow2(n - 1)

LeftShift(v, n) == v * Pow2(n)

RECURSIVE BitwiseOr(_, _)
BitwiseOr(a, b) ==
    IF a = 0 THEN b
    ELSE IF b = 0 THEN a
    ELSE (IF a % 2 = 1 \/ b % 2 = 1 THEN 1 ELSE 0)
         + 2 * BitwiseOr(a \div 2, b \div 2)

(* Variant: the red channel taken as the high byte.                        *)
DecodePixel_RedHigh(rgb) == BitwiseOr(LeftShift(rgb[1], HighByteShift), rgb[3])

DecodePixel(rgb) == BitwiseOr(LeftShift(rgb[2], HighByteShift), rgb[3])

load_depth_data(file) ==
    Array2(file.rows, file.cols,
           [y \in 1..file.rows |-> [x \in 1..file.cols |->
               DecodePixel(file.data[y][x])]])

(* ------------------------------- inputs ------------------------------- *)
(* Depth values supplied directly: negative, invalid (0), below the floor, *)
(* in range, at the cap and above it.                                      *)
DepthPalette == <<-4, 12, 1502, 0, 700, 6, 1500, 10>>

(* Pixels of image files, <<R, G, B>>; the depth is G * 256 + B.           *)
FilePalette == <<
    <<7, 0, 12>>, <<255, 5, 222>>, <<0, 0, 0>>, <<3, 2, 188>>,
    <<130, 0, 12>>, <<9, 255, 255>>, <<1, 5, 220>>, <<200, 0, 6>> >>

Pick(palette, seed, h, w) ==
    [y \in 1..h |-> [x \in 1..w |->
        palette[((seed + (y - 1) * w + (x - 1)) % Len(palette)) + 1]]]

Dims == (1..MaxH) \X (1..MaxW)

ArrayFrames ==
    {[kind |-> "array", bands |-> 1, rows |-> d[1], cols |-> d[2],
      data |-> <<>>, array |-> Pick(DepthPalette, s, d[1], d[2])] :
        d \in Dims, s \in 0..MaxSeed}

FileFrames ==
    {[kind |-> "file", bands |-> b, rows |-> d[1], cols |-> d[2],
      data |-> [y \in 1..d[1] |-> [x \in 1..d[2] |->
                  SubSeq(Pick(FilePalette, s, d[1], d[2])[y][x], 1, b)]],
      array |-> <<>>] :
        d \in Dims, s \in 0..MaxSeed, b \in {1, 3}}

(* Centres of mass <<x, y, z>> with z > 0.  For <<-69, 0, 700>> and        *)
(* <<-70, 0, 1>> under the focal length 588.03 the rounded evaluation of   *)
(* lines 68-69 falls just below a whole number that the unrounded          *)
(* expression would hit, and the floor is one lower.                       *)
Coms ==
    {<<cx, cy, cz>> : cx \in {-1, 0, 1, 3}, cy \in {0, 1}, cz \in {12, 700}}
    \cup {<<64, 64, 500>>, <<-69, 0, 700>>, <<-70, 0, 1>>}

(* Box sizes <<x, y, z>> in mm, z even; and a malformed one of length 2.   *)
Sizes == {<<24, 24, 4>>, <<48, 24, 0>>, <<0, 0, 4>>, <<2, 2, 1400>>,
          <<200, 200, 4>>, <<250, 250, 250>>}
BadSizes == {<<250, 250>>}

(* Output sizes <<width, height>>; and a malformed one of length 3.        *)
ImgSizes == {<<1, 1>>, <<2, 1>>, <<1, 3>>, <<3, 2>>}
BadImgSizes == {<<2, 2, 2>>}

(* Window bounds offered to crop_img on an axis of length n, and z windows *)
(* <<zstart, zend>>, the last one inverted.                                *)
XCoords(n) == {-2, -1, 0, 1, n - 1, n, n + 1}
YCoords(n) == {-1, 0, 1, n, n + 1}
ZWindows == {<<12, 700>>, <<20, 100>>, <<700, 12>>}

(* fx, fy in hundredths: 1.0/1.0 and the NYU intrinsics 588.03/587.07.     *)
Focals == {<<100, 100>>, <<58803, 58707>>}

(* ------------------------- HandDetector.__init__ ---------------------- *)
(* Variant: >= in place of >, zeroing a pixel that sits at the bound.      *)
ZeroAbove_Inclusive(a, bound) ==
    [a EXCEPT !.data = [y \in 1..a.rows |-> [x \in 1..a.cols |->
        IF a.data[y][x] >= bound THEN 0 ELSE a.data[y][x]]]]

ZeroAbove(a, bound) ==
    [a EXCEPT !.data = [y \in 1..a.rows |-> [x \in 1..a.cols |->
        IF a.data[y][x] > bound THEN 0 ELSE a.data[y][x]]]]

ZeroBelow(a, bound) ==
    [a EXCEPT !.data = [y \in 1..a.rows |-> [x \in 1..a.cols |->
        IF a.data[y][x] < bound THEN 0 ELSE a.data[y][x]]]]

MaxDepthOf(a) == Min(DepthCap, ArrMax(a))
MinDepthOf(a) == Max(DepthFloor, ArrMin(a))

ClampImage(a) == ZeroBelow(ZeroAbove(a, MaxDepthOf(a)), MinDepthOf(a))

(* ------------------------- binary64 arithmetic ------------------------ *)
(* Python floats are IEEE 754 binary64.  A float is [s, m, e], the value   *)
(* s * m * 2^e with s = 1 or -1 and m a natural number of exactly MantBits *)
(* bits (or 0).  m exceeds the machine integers of the checker, so         *)
(* naturals are held as sequences of limbs, least significant first, in    *)
(* base 2^LimbBits, without leading zero limbs.  Every operation computes  *)
(* the exact result and rounds it to nearest, ties to even, as the         *)
(* hardware does.  Overflow, subnormals, infinities and NaN do not arise   *)
(* for the magnitudes used here.                                           *)
MantBits == 53
LimbBits == 15
LimbBase == 32768

RECURSIVE BStrip(_)
BStrip(a) ==
    IF a # <<>> /\ a[Len(a)] = 0 THEN BStrip(SubSeq(a, 1, Len(a) - 1)) ELSE a

RECURSIVE BFromInt(_)
BFromInt(n) ==
    IF n = 0 THEN <<>> ELSE <<n % LimbBase>> \o BFromInt(n \div LimbBase)

RECURSIVE BToInt(_)
BToInt(a) ==
    IF a = <<>> THEN 0 ELSE a[1] + LimbBase * BToInt(Tail(a))

Limb(a, i) == IF i <= Len(a) THEN a[i] ELSE 0

RECURSIVE BCmpFrom(_, _, _)
BCmpFrom(a, b, i) ==
    IF i = 0 THEN 0
    ELSE IF a[i] > b[i] THEN 1
    ELSE IF a[i] < b[i] THEN 0 - 1
    ELSE BCmpFrom(a, b, i - 1)

(* 1, 0 or -1 as a > b, a = b or a < b                                     *)
BCmp(a, b) ==
    IF Len(a) > Len(b) THEN 1
    ELSE IF Len(a) < Len(b) THEN 0 - 1
    ELSE BCmpFrom(a, b, Len(a))

RECURSIVE BAddFrom(_, _, _, _)
BAddFrom(a, b, i, carry) ==
    IF i > Len(a) /\ i > Len(b)
    THEN (IF carry = 0 THEN <<>> ELSE <<carry>>)
    ELSE LET t == Limb(a, i) + Limb(b, i) + carry
         IN  <<t % LimbBase>> \o BAddFrom(a, b, i + 1, t \div LimbBase)

BAdd(a, b) == BAddFrom(a, b, 1, 0)

RECURSIVE BSubFrom(_, _, _, _)
BSubFrom(a, b, i, borrow) ==
    IF i > Len(a) THEN <<>>
    ELSE LET t == a[i] - Limb(b, i) - borrow
         IN  <<t % LimbBase>>
             \o BSubFrom(a, b, i + 1, IF t < 0 THEN 1 ELSE 0)

(* a - b for a >= b                                                        *)
BSub(a, b) == BStrip(BSubFrom(a, b, 1, 0))

RECURSIVE BMulSmallFrom(_, _, _, _)
BMulSmallFrom(a, k, i, carry) ==
    IF i > Len(a)
    THEN (IF carry = 0 THEN <<>> ELSE <<carry>>)
    ELSE LET t == a[i] * k + carry
         IN  <<t % LimbBase>> \o BMulSmallFrom(a, k, i + 1, t \div LimbBase)

(* a * k for 0 <= k < LimbBase                                             *)
BMulSmall(a, k) == IF k = 0 THEN <<>> ELSE BMulSmallFrom(a, k, 1, 0)

RECURSIVE BMulFrom(_, _, _)
BMulFrom(a, b, i) ==
    IF i > Len(b) THEN <<>>
    ELSE BAdd(BMulSmall(a, b[i]), <<0>> \o BMulFrom(a, b, i + 1))

BMul(a, b) == BStrip(BMulFrom(a, b, 1))

RECURSIVE TwoTo(_)
TwoTo(n) == IF n = 0 THEN 1 ELSE 2 * TwoTo(n - 1)

(* a * 2^n                                                                 *)
BShl(a, n) ==
    IF a = <<>> THEN <<>>
    ELSE [i \in 1..(n \div LimbBits) |-> 0]
         \o BMulSmall(a, TwoTo(n % LimbBits))

(* floor(a / 2^n)                                                          *)
BShr(a, n) ==
    LET drop == n \div LimbBits
        r == TwoTo(n % LimbBits)
        up == LimbBase \div r
    IN  IF drop >= Len(a) THEN <<>>
        ELSE BStrip([i \in 1..(Len(a) - drop) |->
                 a[i + drop] \div r + (Limb(a, i + drop + 1) % r) * up])

RECURSIVE BitsOf(_)
BitsOf(n) == IF n = 0 THEN 0 ELSE 1 + BitsOf(n \div 2)

BBitLen(a) ==
    IF a = <<>> THEN 0 ELSE LimbBits * (Len(a) - 1) + BitsOf(a[Len(a)])

BIsOdd(a) == a # <<>> /\ a[1] % 2 = 1

(* The next quotient limb of rem / d, for rem < d * LimbBase and the top   *)
(* limb of d at least LimbBase / 2: the estimate from the leading limbs is *)
(* at most two too large, and is lowered until it fits.                    *)
RECURSIVE DigitFix(_, _, _)
DigitFix(rem, d, qhat) ==
    IF BCmp(BMulSmall(d, qhat), rem) > 0
    THEN DigitFix(rem, d, qhat - 1)
    ELSE qhat

Digit(rem, d) ==
    DigitFix(rem, d,
             Min(LimbBase - 1,
                 (Limb(rem, Len(d) + 1) * LimbBase + Limb(rem, Len(d)))
                     \div d[Len(d)]))

(* Long division n / d, limb i of n downwards; rem and q are the remainder *)
(* and the quotient of the limbs above i.                                  *)
RECURSIVE LongDiv(_, _, _, _, _)
LongDiv(n, d, i, rem, q) ==
    IF i = 0 THEN [q |-> q, rem |-> rem]
    ELSE TheOne({ LongDiv(n, d, i - 1, BSub(r, BMulSmall(d, g)),
                          BStrip(<<g>> \o q))
                  : <<r, g>> \in { <<r1, Digit(r1, d)>>
                                   : r1 \in {BStrip(<<n[i]>> \o rem)} } })

(* floor(n / d) and n mod d scaled by a power of two, for d > 0            *)
BDivMod(n, d) ==
    TheOne({ LongDiv(BShl(n, sh), BShl(d, sh), Len(BShl(n, sh)), <<>>, <<>>)
             : sh \in {LimbBits - BitsOf(d[Len(d)])} })

FZero == [s |-> 1, m |-> <<>>, e |-> 0]

(* s * big * 2^e, n the bit length of big, rounded to MantBits bits; a     *)
(* sticky result lies a little above big.                                  *)
RoundBits(s, big, n, e, sticky) ==
    IF n = 0 THEN FZero
    ELSE IF n <= MantBits
    THEN [s |-> s, m |-> BShl(big, MantBits - n), e |-> e - (MantBits - n)]
    ELSE
    LET r == n - MantBits
        kept == BShr(big, r)
        c == BCmp(BSub(big, BShl(kept, r)), BShl(<<1>>, r - 1))
        up == c > 0 \/ (c = 0 /\ (sticky \/ BIsOdd(kept)))
        m == IF up THEN BAdd(kept, <<1>>) ELSE kept
    IN  IF BBitLen(m) > MantBits
        THEN [s |-> s, m |-> BShr(m, 1), e |-> e + r + 1]
        ELSE [s |-> s, m |-> m, e |-> e + r]

FRound(s, big, e, sticky) ==
    TheOne({ RoundBits(s, b, BBitLen(b), e, sticky) : b \in {big} })

(* float(n) for an int n                                                   *)
FFromInt(n) ==
    FRound(IF n < 0 THEN 0 - 1 ELSE 1, BFromInt(Abs(n)), 0, FALSE)

FNeg(a) == [a EXCEPT !.s = 0 - a.s]

(* a * b                                                                   *)
FMul(a, b) ==
    TheOne({ IF x.m = <<>> \/ y.m = <<>> THEN FZero
             ELSE FRound(x.s * y.s, BMul(x.m, y.m), x.e + y.e, FALSE)
             : x \in {a}, y \in {b} })

(* a / b for b # 0: the quotient carries two bits more than a mantissa,    *)
(* and its remainder decides the rounding of a tie.                        *)
FDiv(a, b) ==
    TheOne({ IF x.m = <<>> THEN FZero
             ELSE TheOne({ FRound(x.s * y.s, d.q,
                                  x.e - y.e - (MantBits + 2), d.rem # <<>>)
                           : d \in {BDivMod(BShl(x.m, MantBits + 2), y.m)} })
             : x \in {a}, y \in {b} })

AddAligned(a, b, e) ==
    TheOne({ IF a.s = b.s THEN FRound(a.s, BAdd(x, y), e, FALSE)
             ELSE IF BCmp(x, y) = 0 THEN FZero
             ELSE IF BCmp(x, y) > 0 THEN FRound(a.s, BSub(x, y), e, FALSE)
             ELSE FRound(b.s, BSub(y, x), e, FALSE)
             : x \in {BShl(a.m, a.e - e)}, y \in {BShl(b.m, b.e - e)} })

(* a + b                                                                   *)
FAdd(a, b) ==
    TheOne({ IF x.m = <<>> THEN y
             ELSE IF y.m = <<>> THEN x
             ELSE AddAligned(x, y, Min(x.e, y.e))
             : x \in {a}, y \in {b} })

(* a - b                                                                   *)
FSub(a, b) == FAdd(a, FNeg(b))

(* int(np.floor(a))                                                        *)
FFloor(a) ==
    TheOne({ IF x.m = <<>> THEN 0
             ELSE IF x.e >= 0 THEN x.s * BToInt(BShl(x.m, x.e))
             ELSE TheOne({ IF x.s > 0 THEN BToInt(q)
                           ELSE IF BShl(q, 0 - x.e) = x.m THEN 0 - BToInt(q)
                           ELSE 0 - BToInt(q) - 1
                           : q \in {BShr(x.m, 0 - x.e)} })
             : x \in {a} })

(* The float nearest to f / FocalDen, as the literal 588.03 denotes.       *)
FocalFloat(f) == FDiv(FFromInt(f), FFromInt(FocalDen))

(* --------------------- HandDetector.bounds_from_com ------------------- *)
(* int(np.floor((c * z / f - s / 2.) / z * f)), each operation rounded     *)
ProjectLow(c, z, s, f) ==
    FFloor(FMul(FDiv(FSub(FDiv(FFromInt(c * z), f),
                          FDiv(FFromInt(s), FFromInt(2))),
                     FFromInt(z)), f))

(* Variant: the final multiplication by the focal length left out.        *)
ProjectHigh_NoReproject(c, z, s, f) ==
    FFloor(FDiv(FAdd(FDiv(FFromInt(c * z), f),
                     FDiv(FFromInt(s), FFromInt(2))),
                FFromInt(z)))

(* int(np.floor((c * z / f + s / 2.) / z * f))                             *)
ProjectHigh(c, z, s, f) ==
    FFloor(FMul(FDiv(FAdd(FDiv(FFromInt(c * z), f),
                          FDiv(FFromInt(s), FFromInt(2))),
                     FFromInt(z)), f))

ZStart(com, size) == com[3] - size[3] \div 2
ZEnd(com, size) == com[3] + size[3] \div 2

(* Both bounds of one axis, lines 68-69 for x and 70-71 for y.            *)
AxisBounds(c, z, s, f) ==
    TheOne({ <<ProjectLow(c, z, s, ff), ProjectHigh(c, z, s, ff)>>
             : ff \in {FocalFloat(f)} })

(* The calls drawn from Coms, Sizes and Focals repeat a few projections    *)
(* in every state; their values are evaluated once and looked up.          *)
AxisCalls ==
    {<<com[i], com[3], size[i], f[i]>>
        : com \in Coms, size \in Sizes, f \in Focals, i \in 1..2}

AxisTable == [q \in AxisCalls |-> AxisBounds(q[1], q[2], q[3], q[4])]

AxisBoundsOf(c, z, s, f) ==
    IF <<c, z, s, f>> \in AxisCalls
    THEN AxisTable[<<c, z, s, f>>]
    ELSE AxisBounds(c, z, s, f)

bounds_from_com(f, com, size) ==
    IF com = None
    THEN [status |-> "error", err |-> "TypeError", val |-> <<>>]
    ELSE IF Len(size) < 3
    THEN [status |-> "error", err |-> "IndexError", val |-> <<>>]
    ELSE TheOne({ [status |-> "ok", err |-> "",
                   val |-> << x[1], x[2], y[1], y[2],
                              ZStart(com, size), ZEnd(com, size) >>]
                  : x \in {AxisBoundsOf(com[1], com[3], size[1], f[1])},
                    y \in {AxisBoundsOf(com[2], com[3], size[2], f[2])} })

(* ------------------------- HandDetector.crop_img --------------------- *)
(* Python's a[start:stop] on an axis of length n: the selected indices,    *)
(* 1-based.  A negative start or stop counts from the end of the axis.     *)
SliceBound(i, n) == IF i < 0 THEN Max(i + n, 0) ELSE Min(i, n)

PySlice(start, stop, n) ==
    LET lo == SliceBound(start, n)
        hi == SliceBound(stop, n)
    IN  [k \in 1..Max(hi - lo, 0) |-> lo + k]

(* img[rows, cols]: a view onto img's buffer.                              *)
SliceView(a, rsel, csel) ==
    [ndim |-> 2, rows |-> Len(rsel), cols |-> Len(csel),
     data |-> [i \in 1..Len(rsel) |-> [j \in 1..Len(csel) |->
                  a.data[rsel[i]][csel[j]]]],
     owndata |-> FALSE]

(* Variant: the .copy() left out, the crop staying a view onto img.        *)
NpCopy_Alias(a) == a

NpCopy(a) == [a EXCEPT !.owndata = TRUE]

(* np.pad(a, ((top, bottom), (left, right)), mode='constant', 0)           *)
NpPad(a, top, bottom, left, right) ==
    Array2(top + a.rows + bottom, left + a.cols + right,
           [i \in 1..(top + a.rows + bottom) |->
               [j \in 1..(left + a.cols + right) |->
                   IF /\ i > top /\ i <= top + a.rows
                      /\ j > left /\ j <= left + a.cols
                   THEN a.data[i - top][j - left] ELSE 0]])

NearMask(a, zstart) ==
    [i \in 1..a.rows |-> [j \in 1..a.cols |->
        a.data[i][j] < zstart /\ a.data[i][j] # 0]]

(* Variant: == 0 in place of != 0.                                         *)
FarMask_ZeroOnly(a, zend) ==
    [i \in 1..a.rows |-> [j \in 1..a.cols |->
        a.data[i][j] > zend /\ a.data[i][j] = 0]]

FarMask(a, zend) ==
    [i \in 1..a.rows |-> [j \in 1..a.cols |->
        a.data[i][j] > zend /\ a.data[i][j] # 0]]

(* a[mask] = value                                                         *)
Assign(a, mask, value) ==
    [a EXCEPT !.data = [i \in 1..a.rows |-> [j \in 1..a.cols |->
        IF mask[i][j] THEN value ELSE a.data[i][j]]]]

(* Variant: the far mask taken after the near write, not before it.       *)
ThreshZ_FarAfterNear(a, zstart, zend) ==
    LET raised == Assign(a, NearMask(a, zstart), zstart)
    IN  Assign(raised, FarMask(raised, zend), 0)

ThreshZ(a, zstart, zend) ==
    LET near_values == NearMask(a, zstart)
        far_values == FarMask(a, zend)
    IN  Assign(Assign(a, near_values, zstart), far_values, 0)

(* What a write to the array `a` selected by rsel, csel leaves in `base`:  *)
(* nothing changes when `a` owns its data, the selected cells otherwise.   *)
BufferAfter(base, a, rsel, csel) ==
    IF a.owndata THEN base
    ELSE [base EXCEPT !.data = [y \in 1..base.rows |-> [x \in 1..base.cols |->
            IF \E i \in 1..Len(rsel), j \in 1..Len(csel) :
                   rsel[i] = y /\ csel[j] = x
            THEN LET i == CHOOSE i \in 1..Len(rsel) : rsel[i] = y
                     j == CHOOSE j \in 1..Len(csel) : csel[j] = x
                 IN  a.data[i][j]
            ELSE base.data[y][x]]]]

crop_img(a, xstart, xend, ystart, yend, zstart, zend, thresh_z) ==
    IF a.ndim # 2
    THEN [status |-> "error", err |-> "NotImplementedError", out |-> NoArray,
          rsel |-> <<>>, csel |-> <<>>, img |-> a]
    ELSE
    LET rsel == PySlice(Max(ystart, 0), Min(a.rows, yend), a.rows)
        csel == PySlice(Max(xstart, 0), Min(a.cols, xend), a.cols)
        cropped_img == NpCopy(SliceView(a, rsel, csel))
        cropped == NpPad(cropped_img,
                         Abs(ystart) - Max(ystart, 0),
                         Abs(yend) - Min(yend, a.rows),
                         Abs(xstart) - Max(xstart, 0),
                         Abs(xend) - Min(xend, a.cols))
        result == IF thresh_z THEN ThreshZ(cropped_img, zstart, zend)
                  ELSE cropped_img
    IN  [status |-> "ok", err |-> "",
         out |-> [result EXCEPT !.owndata = TRUE],
         rsel |-> rsel, csel |-> csel,
         img |-> BufferAfter(a, result, rsel, csel)]

(* ---------------------- cv2.resize, INTER_NEAREST --------------------- *)
(* dsize is (width, height).  Destination cell (y, x) reads source cell    *)
(* (min(floor(y * rows / height), rows - 1), min(floor(x * cols / width),  *)
(* cols - 1)), 0-based.  An empty source is rejected.                      *)
NearestIndex(k, srcLen, dstLen) == Min((k * srcLen) \div dstLen, srcLen - 1)

Resize(a, dsize) ==
    IF a.rows = 0 \/ a.cols = 0
    THEN [status |-> "error", err |-> "cv2.error", out |-> NoArray]
    ELSE [status |-> "ok", err |-> "",
          out |-> Array2(dsize[2], dsize[1],
              [y \in 1..dsize[2] |-> [x \in 1..dsize[1] |->
                  a.data[NearestIndex(y - 1, a.rows, dsize[2]) + 1]
                        [NearestIndex(x - 1, a.cols, dsize[1]) + 1]]])]

(* ---------------------- HandDetector.crop_area_3d --------------------- *)
(* Variant: the check for a missing com left out.                         *)
CheckArgs_NoComCheck(com, size, img_size) ==
    IF Len(size) # 3 THEN "size must be 3D."
    ELSE IF Len(img_size) # 2 THEN "img_size must be 2D"
    ELSE ""

(* The three argument checks, in order; "" when the arguments pass.        *)
CheckArgs(com, size, img_size) ==
    IF Len(size) # 3 THEN "size must be 3D."
    ELSE IF Len(img_size) # 2 THEN "img_size must be 2D"
    ELSE IF com = None THEN "CoM must be provided."
    ELSE ""

Failure(err, called, a) ==
    [status |-> "error", err |-> err, called |-> called, bounds |-> <<>>,
     out |-> NoArray, rsel |-> <<>>, csel |-> <<>>, img |-> a]

(* The only member of a singleton set.  { F(v) : v \in {e} } computes e     *)
(* once and names it v, the way a local variable holds a call's result.    *)

(* line 138 and the return, given the crop c computed from the bounds b    *)
ResizeStep(b, c, img_size) ==
    IF c.status # "ok"
    THEN Failure(c.err, <<"bounds_from_com", "crop_img">>, c.img)
    ELSE TheOne({ [status |-> r.status, err |-> r.err,
                   called |-> <<"bounds_from_com", "crop_img", "cv2.resize">>,
                   bounds |-> b.val, out |-> r.out,
                   rsel |-> c.rsel, csel |-> c.csel, img |-> c.img] :
                  r \in {Resize(c.out, img_size)} })

(* line 135 onwards, given the outcome b of bounds_from_com                *)
CropStep(a, b, img_size) ==
    IF b.status # "ok"
    THEN Failure(b.err, <<"bounds_from_com">>, a)
    ELSE TheOne({ ResizeStep(b, c, img_size) :
                  c \in {crop_img(a, b.val[1], b.val[2], b.val[3], b.val[4],
                                  b.val[5], b.val[6], TRUE)} })

crop_area_3d(a, f, com, size, img_size) ==
    IF CheckArgs(com, size, img_size) # ""
    THEN Failure("ValueError", <<>>, a)
    ELSE TheOne({ CropStep(a, b, img_size) :
                  b \in {bounds_from_com(f, com, size)} })

(* ------------------------------- state -------------------------------- *)
VARIABLES
    frame,      \* the frame handed to the pipeline: an image file or an array
    pc,         \* "start", "decoded", "failed", "ready", "returned"
    img,        \* the depth buffer; self.img once the detector is built
    orig,       \* history: the buffer's contents when __init__ was entered
    built,      \* history: the buffer's contents when __init__ returned
    max_depth,  \* self.max_depth
    min_depth,  \* self.min_depth
    focal,      \* <<self.fx, self.fy>> in hundredths
    ret         \* outcome of the last call

vars == <<frame, pc, img, orig, built, max_depth, min_depth, focal, ret>>

NoRet == [op |-> "none", status |-> "none", err |-> "", called |-> <<>>,
          args |-> <<>>, bounds |-> <<>>, out |-> NoArray,
          rsel |-> <<>>, csel |-> <<>>, thresh |-> FALSE]

Init ==
    /\ frame \in ArrayFrames \cup FileFrames
    /\ pc = "start"
    /\ img = IF frame.kind = "array"
             THEN Array2(frame.rows, frame.cols, frame.array) ELSE NoArray
    /\ orig = NoArray
    /\ built = NoArray
    /\ max_depth = 0
    /\ min_depth = 0
    /\ focal = <<0, 0>>
    /\ ret = NoRet

(* NYUImporter.load_depth_data on the frame's file.                        *)
LoadDepthData ==
    /\ pc = "start"
    /\ frame.kind = "file"
    /\ IF frame.bands = 3
       THEN /\ img' = load_depth_data(frame)
            /\ pc' = "decoded"
            /\ ret' = [NoRet EXCEPT !.op = "load_depth_data", !.status = "ok"]
       ELSE /\ img' = img
            /\ pc' = "failed"
            /\ ret' = [NoRet EXCEPT !.op = "load_depth_data",
                                    !.status = "error", !.err = "AssertionError"]
    /\ UNCHANGED <<frame, orig, built, max_depth, min_depth, focal>>

(* HandDetector(img, fx, fy): clamps the caller's buffer in place.         *)
Construct ==
    /\ \/ pc = "decoded"
       \/ pc = "start" /\ frame.kind = "array"
    /\ \E f \in Focals :
        /\ orig' = img
        /\ max_depth' = MaxDepthOf(img)
        /\ min_depth' = MinDepthOf(img)
        /\ img' = ClampImage(img)
        /\ built' = ClampImage(img)
        /\ focal' = f
    /\ pc' = "ready"
    /\ ret' = NoRet
    /\ UNCHANGED frame

(* self.bounds_from_com(com, size)                                         *)
BoundsFromComCall ==
    /\ pc = "ready"
    /\ \E com \in Coms, size \in Sizes :
        \E b \in {bounds_from_com(focal, com, size)} :
        ret' = [NoRet EXCEPT !.op = "bounds_from_com", !.status = b.status,
                             !.err = b.err, !.args = <<com, size>>,
                             !.bounds = b.val]
    /\ pc' = "returned"
    /\ UNCHANGED <<frame, img, orig, built, max_depth, min_depth, focal>>

(* self.crop_img(self.img, ...) with any window, thresholding on or off.   *)
CropImgCall ==
    /\ pc = "ready"
    /\ \E xstart \in XCoords(img.cols), xend \in XCoords(img.cols),
          ystart \in YCoords(img.rows), yend \in YCoords(img.rows),
          z \in ZWindows, thresh_z \in BOOLEAN :
        \E c \in {crop_img(img, xstart, xend, ystart, yend, z[1], z[2],
                             thresh_z)} :
            /\ ret' = [NoRet EXCEPT
                          !.op = "crop_img", !.status = c.status, !.err = c.err,
                          !.args = <<xstart, xend, ystart, yend, z[1], z[2]>>,
                          !.out = c.out, !.rsel = c.rsel, !.csel = c.csel,
                          !.thresh = thresh_z]
            /\ img' = c.img
    /\ pc' = "returned"
    /\ UNCHANGED <<frame, orig, built, max_depth, min_depth, focal>>

(* self.crop_img on the undecoded 3-channel array of the frame's file.     *)
CropImgCall3D ==
    /\ pc = "ready"
    /\ frame.kind = "file"
    /\ LET a == [ndim |-> 3, rows |-> frame.rows, cols |-> frame.cols,
                 data |-> frame.data, owndata |-> TRUE]
           c == crop_img(a, 0, 1, 0, 1, 0, 0, TRUE)
       IN  ret' = [NoRet EXCEPT !.op = "crop_img", !.status = c.status,
                                !.err = c.err, !.args = <<0, 1, 0, 1, 0, 0>>,
                                !.thresh = TRUE]
    /\ pc' = "returned"
    /\ UNCHANGED <<frame, img, orig, built, max_depth, min_depth, focal>>

(* self.crop_area_3d(com, size, img_size), well-formed arguments or not.   *)
CropArea3dCall ==
    /\ pc = "ready"
    /\ \E com \in Coms \cup {None}, size \in Sizes \cup BadSizes,
          img_size \in ImgSizes \cup BadImgSizes :
        \E r \in {crop_area_3d(img, focal, com, size, img_size)} :
        /\ ret' = [NoRet EXCEPT
                      !.op = "crop_area_3d", !.status = r.status, !.err = r.err,
                      !.called = r.called, !.args = <<com, size, img_size>>,
                      !.bounds = r.bounds, !.out = r.out,
                      !.rsel = r.rsel, !.csel = r.csel, !.thresh = TRUE]
        /\ img' = r.img
    /\ pc' = "returned"
    /\ UNCHANGED <<frame, orig, built, max_depth, min_depth, focal>>

(* The caller takes the outcome; the detector is ready for the next call.  *)
Return ==
    /\ pc = "returned"
    /\ pc' = "ready"
    /\ ret' = NoRet
    /\ UNCHANGED <<frame, img, orig, built, max_depth, min_depth, focal>>

Next ==
    \/ LoadDepthData
    \/ Construct
    \/ BoundsFromComCall
    \/ CropImgCall
    \/ CropImgCall3D
    \/ CropArea3dCall
    \/ Return

Spec == Init /\ [][Next]_vars

(* ============================ properties ============================== *)
Built == pc \in {"ready", "returned"}
Returned(op) == pc = "returned" /\ ret.op = op
CropReturned == Returned("crop_img") /\ ret.status = "ok"

XStart == ret.args[1]
XEnd == ret.args[2]
YStart == ret.args[3]
YEnd == ret.args[4]
ZStartArg == ret.args[5]
ZEndArg == ret.args[6]

(* The value the crop's cell (i, j) had in the image before thresholding.  *)
Source(i, j) == built.data[ret.rsel[i]][ret.csel[j]]

(* C1: a crop_img window with xstart < xend and ystart < yend that extends *)
(* past the image on some side comes back with exactly yend - ystart rows  *)
(* and xend - xstart columns, and every cell whose window coordinate lies  *)
(* outside the image is 0.  The code pads into `cropped` and returns the   *)
(* unpadded `cropped_img`, so this fails.                                  *)
C1_PaddedToWindow ==
    ( /\ CropReturned
      /\ XStart < XEnd /\ YStart < YEnd
      /\ \/ XStart < 0 \/ XEnd > built.cols
         \/ YStart < 0 \/ YEnd > built.rows )
    => /\ ret.out.rows = YEnd - YStart
       /\ ret.out.cols = XEnd - XStart
       /\ \A i \in 1..ret.out.rows, j \in 1..ret.out.cols :
            ( \/ YStart + i - 1 < 0 \/ YStart + i - 1 >= built.rows
              \/ XStart + j - 1 < 0 \/ XStart + j - 1 >= built.cols )
            => ret.out.data[i][j] = 0

(* C2: crop_img extracts exactly the overlap of the window with the image: *)
(* the extracted cells are the coordinates (x, y), 0-based, with           *)
(* max(xstart, 0) <= x < min(xend, width) and max(ystart, 0) <= y <        *)
(* min(yend, height), for every integer window.  A negative xend or yend   *)
(* is taken by the slice as an offset from the far edge, so this fails.    *)
C2_ExtractsOverlap ==
    CropReturned =>
        {<<ret.csel[j] - 1, ret.rsel[i] - 1>> :
            i \in 1..Len(ret.rsel), j \in 1..Len(ret.csel)}
        = {<<x, y>> \in (0..(built.cols - 1)) \X (0..(built.rows - 1)) :
            /\ Max(XStart, 0) <= x /\ x < Min(XEnd, built.cols)
            /\ Max(YStart, 0) <= y /\ y < Min(YEnd, built.rows)}

WellFormedCall ==
    /\ Returned("crop_area_3d")
    /\ ret.args[1] # None
    /\ Len(ret.args[2]) = 3
    /\ Len(ret.args[3]) = 2

(* C3: crop_area_3d with com.z > 0, a size of length 3 and a positive      *)
(* img_size = (width, height) returns an image of exactly height rows and  *)
(* width columns, wherever the crop window lies.  A window that misses the *)
(* image leaves an empty crop, which the resize rejects, so this fails.    *)
C3_ExactOutputSize ==
    WellFormedCall =>
        /\ ret.status = "ok"
        /\ ret.out.rows = ret.args[3][2]
        /\ ret.out.cols = ret.args[3][1]

(* C4, as stated: with thresholding on, 0 stays 0, a non-zero v with       *)
(* zstart < v < zend is unchanged, a non-zero v <= zstart becomes zstart,  *)
(* and v > zend becomes 0.                                                 *)
C4_ThreshAsStated ==
    (CropReturned /\ ret.thresh) =>
        \A i \in 1..ret.out.rows, j \in 1..ret.out.cols :
            LET v == Source(i, j)
                w == ret.out.data[i][j]
            IN  /\ v = 0 => w = 0
                /\ (v # 0 /\ ZStartArg < v /\ v < ZEndArg) => w = v
                /\ (v # 0 /\ v <= ZStartArg) => w = ZStartArg
                /\ v > ZEndArg => w = 0

(* C4, amended: with thresholding on, 0 stays 0; a non-zero v > zend       *)
(* becomes 0, also when v <= zstart (an inverted window); a non-zero       *)
(* v <= zstart that is not above zend becomes zstart, and stays zstart     *)
(* even when zstart > zend, both masks being taken before either write;    *)
(* every other value is unchanged.                                         *)
C4_ThreshMapping ==
    (CropReturned /\ ret.thresh) =>
        \A i \in 1..ret.out.rows, j \in 1..ret.out.cols :
            LET v == Source(i, j)
                w == ret.out.data[i][j]
            IN  /\ v = 0 => w = 0
                /\ (v # 0 /\ v > ZEndArg) => w = 0
                /\ (v # 0 /\ v <= ZStartArg /\ v <= ZEndArg) => w = ZStartArg
                /\ (v # 0 /\ ZStartArg < v /\ v <= ZEndArg) => w = v

(* A thresholded crop through an inverted window holding a cell raised to  *)
(* zstart (above zend) and a cell zeroed by the far rule.                  *)
C4_Witness ==
    /\ CropReturned /\ ret.thresh
    /\ ZStartArg > ZEndArg
    /\ \E i \in 1..ret.out.rows, j \in 1..ret.out.cols :
        /\ Source(i, j) # 0 /\ Source(i, j) < ZStartArg
        /\ ret.out.data[i][j] = ZStartArg
    /\ \E i \in 1..ret.out.rows, j \in 1..ret.out.cols :
        /\ Source(i, j) > ZEndArg
        /\ ret.out.data[i][j] = 0

InRange(v) == min_depth <= v /\ v <= max_depth

ClampEffect ==
    /\ max_depth = Min(DepthCap, ArrMax(orig))
    /\ min_depth = Max(DepthFloor, ArrMin(orig))
    /\ img.rows = orig.rows /\ img.cols = orig.cols
    /\ \A p \in Pixels(orig) :
        LET o == orig.data[p[1]][p[2]]
            v == img.data[p[1]][p[2]]
        IN  /\ InRange(o) => v = o
            /\ (o > max_depth \/ o < min_depth) => v = 0

(* C5, as stated: after construction every stored pixel v has              *)
(* 0 <= v <= min(1500, original max); a pixel originally in                *)
(* [min_depth, max_depth] keeps its value and any other pixel is 0.        *)
C5_ClampAsStated ==
    Built =>
        /\ ClampEffect
        /\ \A p \in Pixels(img) :
            /\ 0 <= img.data[p[1]][p[2]]
            /\ img.data[p[1]][p[2]] <= Min(DepthCap, ArrMax(orig))

(* C5, amended: after construction every stored pixel v has                *)
(* 0 <= v <= max(0, min(1500, original max)), the upper bound being 0 for  *)
(* an image with no positive value; a pixel originally in                  *)
(* [min_depth, max_depth] keeps its value and any other pixel is 0.        *)
C5_Clamp ==
    Built =>
        /\ ClampEffect
        /\ \A p \in Pixels(img) :
            /\ 0 <= img.data[p[1]][p[2]]
            /\ img.data[p[1]][p[2]] <= Max(0, Min(DepthCap, ArrMax(orig)))

(* A built detector whose image had a pixel above the cap, a pixel below   *)
(* the floor and a pixel in range, the first two now 0, the last kept.     *)
C5_Witness ==
    /\ Built
    /\ \E p \in Pixels(orig) :
        orig.data[p[1]][p[2]] > DepthCap /\ img.data[p[1]][p[2]] = 0
    /\ \E p \in Pixels(orig) :
        /\ orig.data[p[1]][p[2]] # 0 /\ orig.data[p[1]][p[2]] < DepthFloor
        /\ img.data[p[1]][p[2]] = 0
    /\ \E p \in Pixels(orig) :
        /\ InRange(orig.data[p[1]][p[2]])
        /\ img.data[p[1]][p[2]] = orig.data[p[1]][p[2]]

BoundsReturned == Returned("bounds_from_com") /\ ret.status = "ok"
XWidth == ret.bounds[2] - ret.bounds[1]
YWidth == ret.bounds[4] - ret.bounds[3]

WidthsAt(com, size) ==
    LET b == bounds_from_com(focal, com, size).val
    IN  <<b[2] - b[1], b[4] - b[3]>>

(* C6, as stated: for size = (S, S, Sz) and com.z > 0 the pixel widths     *)
(* xend - xstart and yend - ystart are within 1 of S, and the same com.x,  *)
(* com.y and S give the same widths for every com.z > 0.                   *)
C6_WidthAsStated ==
    (BoundsReturned /\ ret.args[2][1] = ret.args[2][2]) =>
        /\ Abs(XWidth - ret.args[2][1]) <= 1
        /\ Abs(YWidth - ret.args[2][2]) <= 1
        /\ \A c \in Coms :
            WidthsAt(<<ret.args[1][1], ret.args[1][2], c[3]>>, ret.args[2])
            = <<XWidth, YWidth>>

(* C6, amended: for com.z > 0 the pixel width xend - xstart is within 1 of *)
(* size.x * fx / com.z and yend - ystart within 1 of size.y * fy / com.z.  *)
C6_WidthScaled ==
    BoundsReturned =>
        /\ Abs(XWidth * ret.args[1][3] * FocalDen - ret.args[2][1] * focal[1])
            <= ret.args[1][3] * FocalDen
        /\ Abs(YWidth * ret.args[1][3] * FocalDen - ret.args[2][2] * focal[2])
            <= ret.args[1][3] * FocalDen

(* The bounds of a 250 mm box at 500 mm under the NYU intrinsics: the      *)
(* window is about 294 pixels wide and high, not 250.                      *)
C6_Witness ==
    /\ BoundsReturned
    /\ ret.args = << <<64, 64, 500>>, <<250, 250, 250>> >>
    /\ focal = <<58803, 58707>>
    /\ XWidth > 251 /\ YWidth > 251

(* C7: for a 3-channel image of bytes, load_depth_data returns at every    *)
(* pixel exactly (G << 8) | B = 256 * G + B, a value in [0, 65535]; the R  *)
(* channel does not enter the result.                                      *)
C7_DecodeExact ==
    pc = "decoded" =>
        /\ img.ndim = 2 /\ img.rows = frame.rows /\ img.cols = frame.cols
        /\ \A p \in Pixels(img) :
            /\ img.data[p[1]][p[2]]
                = 256 * frame.data[p[1]][p[2]][2] + frame.data[p[1]][p[2]][3]
            /\ img.data[p[1]][p[2]] \in 0..65535

(* A decoded file holding a pixel whose three channels are all non-zero    *)
(* and whose red byte differs from its green byte.                         *)
C7_Witness ==
    /\ pc = "decoded"
    /\ \E p \in Pixels(img) :
        LET rgb == frame.data[p[1]][p[2]]
        IN  /\ rgb[1] > 0 /\ rgb[2] > 0 /\ rgb[3] > 0 /\ rgb[1] # rgb[2]
            /\ img.data[p[1]][p[2]] > 255

(* C8: crop_area_3d with a size not of length 3, an img_size not of length *)
(* 2 or no com fails with a ValueError before bounds_from_com, crop_img or *)
(* the resize is called, returns no image and leaves the stored image as   *)
(* the constructor left it.                                                *)
C8_ValidationFirst ==
    (Returned("crop_area_3d") /\ ~WellFormedCall) =>
        /\ ret.status = "error"
        /\ ret.err = "ValueError"
        /\ ret.called = <<>>
        /\ ret.out = NoArray
        /\ img = built

(* A call without a centre of mass, its other arguments well formed, that  *)
(* was rejected.                                                           *)
C8_Witness ==
    /\ Returned("crop_area_3d")
    /\ ret.args[1] = None
    /\ Len(ret.args[2]) = 3 /\ Len(ret.args[3]) = 2
    /\ ret.status = "error"

(* C9: once built, the stored image is never written: after any sequence   *)
(* of bounds_from_com, crop_img and crop_area_3d calls it equals the image *)
(* the constructor left, so every crop_area_3d call returns what the same  *)
(* call returns on that image.                                             *)
C9_ImageReadOnly ==
    /\ Built => img = built
    /\ Returned("crop_area_3d") =>
        LET again == crop_area_3d(built, focal, ret.args[1], ret.args[2],
                                  ret.args[3])
        IN  ret.status = again.status /\ ret.out = again.out

(* A crop_area_3d call that returned an image and whose thresholding had   *)
(* to change the value of a cell taken from the stored image.              *)
C9_Witness ==
    /\ Returned("crop_area_3d") /\ ret.status = "ok"
    /\ \E i \in 1..Len(ret.rsel), j \in 1..Len(ret.csel) :
        /\ Source(i, j) # 0
        /\ \/ Source(i, j) < ret.bounds[5]
           \/ Source(i, j) > ret.bounds[6]

(* C10: every pixel of an image returned by crop_area_3d (com.z > 0, size  *)
(* components >= 0) lies in [0, zend], zend = com.z + size.z / 2.          *)
C10_OutputRange ==
    (Returned("crop_area_3d") /\ ret.status = "ok") =>
        \A p \in Pixels(ret.out) :
            /\ 0 <= ret.out.data[p[1]][p[2]]
            /\ ret.out.data[p[1]][p[2]]
                <= ret.args[1][3] + ret.args[2][3] \div 2

(* A returned image with a cell raised to zstart, cropped from a region    *)
(* that also held a value above zend.                                      *)
C10_Witness ==
    /\ Returned("crop_area_3d") /\ ret.status = "ok"
    /\ \E p \in Pixels(ret.out) :
        ret.out.data[p[1]][p[2]] = ret.bounds[5] /\ ret.bounds[5] > 0
    /\ \E i \in 1..Len(ret.rsel), j \in 1..Len(ret.csel) :
        /\ Source(i, j) # ret.bounds[5]
        /\ \/ Source(i, j) > ret.bounds[6]
           \/ Source(i, j) # 0 /\ Source(i, j) < ret.bounds[5]

====
